---- MODULE Spec2Model ----
(***************************************************************************)
(* Model of the Solana bundler detector: the scoring engine of             *)
(* lib/analyzer.ts (analyzeBundlingPatterns and its helpers) and the       *)
(* retrieval path of analyzeToken that feeds it.                           *)
(*                                                                         *)
(* Numbers.  The engine computes in IEEE doubles.  The model computes the  *)
(* same expressions in exact rational arithmetic over the naturals: every  *)
(* Math.round(p / q) is RoundDiv(p, q), and every                          *)
(* Math.round(Math.max(0, 100 - m * Math.sqrt(v) / avg)) is decided by     *)
(* integer comparisons of squares (RoundedComplement).  A double result    *)
(* can differ from the exact one only when the exact value lies within an  *)
(* ulp of a rounding boundary k + 0.5.                                     *)
(***************************************************************************)
EXTENDS Integers, Sequences, FiniteSets, TLC

VARIABLES
    transfers,  \* the array handed to analyzeBundlingPatterns, as the call left it
    passed,     \* the contents of that array when the call was made
    result,     \* the AnalysisResult of the most recent call, or NoResult
    history,    \* completed invocations, oldest first: [input, output]
    scores,     \* the arguments of the most recent generateInsights call
    insights,   \* what that call returned, or NoInsights
    pc,         \* where the analyzeToken call stands (the await it is at)
    period,     \* analyzeToken's period argument
    signatures, \* the signatures the signature query returned
    batchStart, \* the loop index i of getTokenTransfers' batch loop
    error,      \* the message of the Error analyzeToken rejected with, or ""
    requests,   \* the HTTP requests issued so far, oldest first
    retrieved,  \* the path on which retrieval ran to its end, or "no"
    signaturesData, \* the bodies the signature queries answered with, in order
    batchResults, \* per batch of the loop, oldest first: [ok, pushed]
    app,        \* the state of the App component, apiKey being the hook's state
    analyses,   \* the number of analyzeToken calls App has made
    modal,      \* the state of SettingsModal: [apiKey, savedKey, testStatus]
    localStorage, \* <<v>> when 'helius_api_key' is stored with value v, else <<>>
    testsInFlight, \* getHealth requests of handleTest awaiting their response
    resetTimers, \* pending 3000 ms timers that set testStatus back to 'idle'
    paste,      \* SmartPasteButton: [status, detectedAddress, tokenInfo, fetchingToken]
    clipboard,  \* the text on the system clipboard
    fetches,    \* addresses of the getAsset requests in flight, oldest first
    pastedTimers \* pending 1500 ms timers that set status back to 'found'

engineVars == <<transfers, passed, result, history, scores, insights>>

tokenVars ==
    <<pc, period, signatures, batchStart, error, requests, retrieved,
      signaturesData, batchResults>>

settingsVars == <<modal, localStorage, testsInFlight, resetTimers>>

pasteVars == <<paste, clipboard, fetches, pastedTimers>>

uiVars == <<app, analyses, settingsVars, pasteVars>>

vars == <<transfers, passed, result, history, scores, insights,
          pc, period, signatures, batchStart, error, requests, retrieved,
          signaturesData, batchResults, app, analyses,
          modal, localStorage, testsInFlight, resetTimers,
          paste, clipboard, fetches, pastedTimers>>

NoResult == [score |-> -1]
NoScores == [overallScore |-> -1]
NoInsights == [riskLevel |-> ""]

(***************************************************************************)
(* Bounds of the input space.                                              *)
(***************************************************************************)
MaxLen == 3
MaxAmount == 2
MaxCalls == 3
MaxCallLen == 2

Timestamps == {0, 400000}
WalletNames == <<"w1", "w2", "w3", "w4">>
Wallets == {WalletNames[i] : i \in 1..Len(WalletNames)}
Senders == {"f1"}
Amounts == 0..MaxAmount

\* interface TokenTransfer
TokenTransfer ==
    [signature : {"sig"}, timestamp : Timestamps, from : Senders,
     to : Wallets, amount : Amounts, slot : {0}]

Transfer(ts, to, amount) ==
    [signature |-> "sig", timestamp |-> ts, from |-> "f1", to |-> to,
     amount |-> amount, slot |-> 0]

\* The engine only compares addresses for equality, so one naming of the
\* receiving wallets stands for all: the first transfer goes to w1, and a
\* transfer goes to a wallet already seen or to the next unused one.
FirstUseOrder(n) ==
    {p \in [1..n -> 1..n] :
        \A i \in 1..n : p[i] = 1 \/ \E j \in 1..(i - 1) : p[j] + 1 >= p[i]}

\* The list with receivers named by p and (timestamp, amount) pairs pay.
ListOf(p, pay) ==
    [i \in DOMAIN p |-> Transfer(pay[i][1], WalletNames[p[i]], pay[i][2])]

\* transfers is one of the bounded lists.
BoundedList(list) ==
    \E n \in 1..MaxLen :
        \E p \in FirstUseOrder(n) :
            \E pay \in [1..n -> Timestamps \X Amounts] : list = ListOf(p, pay)

(***************************************************************************)
(* Arithmetic helpers.                                                     *)
(***************************************************************************)
\* The element of a one-element set.  Only({e(x) : x \in {v}}) is e with x
\* bound to the value of v, so that v is computed once, as a const or a
\* parameter of the code is.
Only(S) == CHOOSE x \in S : TRUE

Max(a, b) == IF a >= b THEN a ELSE b
Min(a, b) == IF a <= b THEN a ELSE b
Abs(a) == IF a >= 0 THEN a ELSE -a

RECURSIVE SumSeq(_)
SumSeq(s) == IF s = <<>> THEN 0 ELSE Head(s) + SumSeq(Tail(s))

RECURSIVE SumSquares(_)
SumSquares(s) == IF s = <<>> THEN 0 ELSE Head(s) * Head(s) + SumSquares(Tail(s))

\* Math.round(p / q) for p >= 0, q > 0: the nearest integer, halves upwards.
RoundDiv(p, q) == (2 * p + q) \div (2 * q)

\* p / q <= r / s for naturals with q, s > 0, by continued fractions (no
\* product is formed, so large amounts do not overflow).
RECURSIVE FracLeq(_, _, _, _)
FracLeq(p, q, r, s) ==
    \E ip \in {p \div q}, ir \in {r \div s}, fp \in {p % q}, fr \in {r % s} :
        IF ip # ir THEN ip < ir
        ELSE IF fp = 0 THEN TRUE
        ELSE IF fr = 0 THEN FALSE
        ELSE \E q1 \in {s}, s1 \in {q} : FracLeq(q1, fr, s1, fp)

\* Math.round(Math.max(0, 100 - m * Math.sqrt(variance) / avg)) where the
\* values are v[1..n], sum = Sum v, d = n * Sum v^2 - sum^2, so that
\* sqrt(variance) / avg = sqrt(d) / sum.  The result is the largest k with
\* 100 - m * sqrt(d) / sum >= k - 1/2 ("k is reached"), that is
\* d / ((201 - 2k) * sum) <= ((201 - 2k) * sum) / (4 * m * m), and 0 if none.
\* Reaches(k) is monotone in k, so the largest k is found by bisection.
ComplementReaches(m, d, sum, k) ==
    \E x \in {(201 - 2 * k) * sum} : FracLeq(d, x, x, 4 * m * m)

\* The largest k in lo..hi that is reached, given that lo is.
RECURSIVE LargestReached(_, _, _, _, _)
LargestReached(m, d, sum, lo, hi) ==
    IF lo = hi THEN lo
    ELSE Only({IF ComplementReaches(m, d, sum, mid)
               THEN LargestReached(m, d, sum, mid, hi)
               ELSE LargestReached(m, d, sum, lo, mid - 1) :
                  mid \in {(lo + hi + 1) \div 2}})

RoundedComplement(m, d, sum) ==
    Only({IF ~ComplementReaches(m, dv, sv, 1) THEN 0
          ELSE LargestReached(m, dv, sv, 1, 100) : dv \in {d}, sv \in {sum}})

(***************************************************************************)
(* analyzeTimeClustering                                                   *)
(***************************************************************************)
\* Array.prototype.sort with (a, b) => a.timestamp - b.timestamp: a stable
\* sort, ascending by timestamp.
RECURSIVE InsertByTimestamp(_, _)
InsertByTimestamp(array, t) ==
    Only({IF sorted = <<>> THEN <<t>>
          ELSE IF sorted[Len(sorted)].timestamp <= t.timestamp THEN Append(sorted, t)
          ELSE Append(InsertByTimestamp(SubSeq(sorted, 1, Len(sorted) - 1), t),
                      sorted[Len(sorted)]) :
             sorted \in {array}})

RECURSIVE SortFrom(_, _)
SortFrom(sorted, rest) ==
    IF rest = <<>> THEN sorted
    ELSE SortFrom(InsertByTimestamp(sorted, Head(rest)), Tail(rest))

SortByTimestamp_none(list) == list

SortByTimestamp(list) == SortFrom(<<>>, list)

\* The windows with a ten-minute one added.
timeWindows_withTenMinutes == <<30, 60, 300, 600>>

\* The windows without the five-minute one.
timeWindows_withoutFiveMinutes == <<30, 60>>

timeWindows == <<30, 60, 300>>

\* The loop over sorted[1..]: clusters closed so far and the current one.
RECURSIVE ClusterWalk(_, _, _, _, _)
ClusterWalk(sorted, i, windowMs, clusters, currentCluster) ==
    IF i > Len(sorted)
    THEN IF Len(currentCluster) > 1 THEN Append(clusters, currentCluster)
         ELSE clusters
    ELSE LET timeDiff == sorted[i].timestamp - sorted[i - 1].timestamp
         IN  IF timeDiff <= windowMs * 1000
             THEN ClusterWalk(sorted, i + 1, windowMs, clusters,
                              Append(currentCluster, sorted[i]))
             ELSE ClusterWalk(sorted, i + 1, windowMs,
                              IF Len(currentCluster) > 1
                              THEN Append(clusters, currentCluster)
                              ELSE clusters,
                              <<sorted[i]>>)

Clusters(sorted, windowMs) == ClusterWalk(sorted, 2, windowMs, <<>>, <<sorted[1]>>)

\* The number of clusters instead of the size of the largest.
MaxClusterSize_numberOfClusters(clusters) == Len(clusters)

\* Math.max(...clusters.map((c) => c.length), 0)
RECURSIVE MaxClusterSize(_)
MaxClusterSize(clusters) ==
    IF clusters = <<>> THEN 0
    ELSE Max(Len(Head(clusters)), MaxClusterSize(Tail(clusters)))

\* clusterScore * sorted.length, an integer:
\* Math.min(100, (maxClusterSize / sorted.length) * 200)
ClusterScoreTimesN_unclamped(maxClusterSize, n) == maxClusterSize * 200

ClusterScoreTimesN(maxClusterSize, n) == Min(100 * n, maxClusterSize * 200)

RECURSIVE MaxClusterScoreTimesN(_, _)
MaxClusterScoreTimesN(sorted, w) ==
    IF w > Len(timeWindows) THEN 0
    ELSE Max(ClusterScoreTimesN(MaxClusterSize(Clusters(sorted, timeWindows[w])),
                                Len(sorted)),
             MaxClusterScoreTimesN(sorted, w + 1))

\* The value analyzeTimeClustering returns.
analyzeTimeClustering(list) ==
    IF Len(list) < 2 THEN 0
    ELSE LET sorted == SortByTimestamp(list)
         IN  RoundDiv(MaxClusterScoreTimesN(sorted, 1), Len(sorted))

\* The array analyzeTimeClustering leaves behind: transfers.sort sorts the
\* caller's array in place.
AfterTimeClustering(list) ==
    IF Len(list) < 2 THEN list ELSE SortByTimestamp(list)

(***************************************************************************)
(* analyzeWalletPatterns, analyzeTransactionSizes, analyzeDistribution     *)
(***************************************************************************)
\* The keys of a Map filled by transfers.forEach on transfer.to, in
\* insertion order.
RECURSIVE ReceiverKeys(_, _)
ReceiverKeys(list, seen) ==
    Only({IF list = <<>> THEN keys
          ELSE ReceiverKeys(Tail(list),
                            IF \E i \in 1..Len(keys) : keys[i] = Head(list).to
                            THEN keys ELSE Append(keys, Head(list).to)) :
             keys \in {seen}})

\* walletCounts fed with the amounts instead of one per transfer.
RECURSIVE CountTo_amounts(_, _)
CountTo_amounts(list, w) ==
    IF list = <<>> THEN 0
    ELSE (IF Head(list).to = w THEN Head(list).amount ELSE 0)
         + CountTo_amounts(Tail(list), w)

RECURSIVE CountTo(_, _)
CountTo(list, w) ==
    IF list = <<>> THEN 0
    ELSE (IF Head(list).to = w THEN 1 ELSE 0) + CountTo(Tail(list), w)

\* buyerAmounts.set(to, amount) without the running total: the last amount.
RECURSIVE AmountTo_lastOnly(_, _)
AmountTo_lastOnly(list, w) ==
    IF list = <<>> THEN 0
    ELSE IF list[Len(list)].to = w THEN list[Len(list)].amount
    ELSE AmountTo_lastOnly(SubSeq(list, 1, Len(list) - 1), w)

RECURSIVE AmountTo(_, _)
AmountTo(list, w) ==
    IF list = <<>> THEN 0
    ELSE (IF Head(list).to = w THEN Head(list).amount ELSE 0)
         + AmountTo(Tail(list), w)

\* Array.from(walletCounts.values())
WalletCounts(list) ==
    LET keys == ReceiverKeys(list, <<>>)
    IN  [i \in 1..Len(keys) |-> CountTo(list, keys[i])]

\* counts = [] gives avg = NaN and variance = NaN; NaN > 0 is false, so the
\* coefficient is 0 and the score 100.
analyzeWalletPatterns(list) ==
    LET counts == WalletCounts(list)
        n == Len(counts)
        sum == SumSeq(counts)
        d == n * SumSquares(counts) - sum * sum
    IN  IF n = 0 \/ d = 0 THEN 100 ELSE RoundedComplement(50, d, sum)

analyzeTransactionSizes_noGuard(list) ==
    LET amounts == [i \in 1..Len(list) |-> list[i].amount]
        n == Len(amounts)
        sum == SumSeq(amounts)
        d == n * SumSquares(amounts) - sum * sum
    IN  IF sum = 0 THEN 100 ELSE RoundedComplement(100, d, sum)

\* The variant that substitutes 1 for a zero average instead of 0 for the
\* coefficient; it differs when the amounts are all 0.
analyzeTransactionSizes_zeroAverage(list) ==
    IF Len(list) < 2 THEN 0
    ELSE LET amounts == [i \in 1..Len(list) |-> list[i].amount]
             n == Len(amounts)
             sum == SumSeq(amounts)
             d == n * SumSquares(amounts) - sum * sum
         IN  IF sum = 0 THEN 0 ELSE RoundedComplement(100, d, sum)

analyzeTransactionSizes(list) ==
    IF Len(list) < 2 THEN 0
    ELSE LET amounts == [i \in 1..Len(list) |-> list[i].amount]
             n == Len(amounts)
             sum == SumSeq(amounts)
             d == n * SumSquares(amounts) - sum * sum
         IN  IF sum = 0 THEN 100 ELSE RoundedComplement(100, d, sum)

\* sort((a, b) => b - a): descending.
RECURSIVE InsertDescending(_, _)
InsertDescending(array, a) ==
    Only({IF sorted = <<>> THEN <<a>>
          ELSE IF sorted[Len(sorted)] >= a THEN Append(sorted, a)
          ELSE Append(InsertDescending(SubSeq(sorted, 1, Len(sorted) - 1), a),
                      sorted[Len(sorted)]) :
             sorted \in {array}})

RECURSIVE SortDescending(_, _)
SortDescending(sorted, rest) ==
    IF rest = <<>> THEN sorted
    ELSE SortDescending(InsertDescending(sorted, Head(rest)), Tail(rest))

\* The per-transfer amounts, not aggregated per wallet.
BuyerAmounts_perTransfer(list) ==
    SortDescending(<<>>, [i \in 1..Len(list) |-> list[i].amount])

\* Array.from(buyerAmounts.values()).sort((a, b) => b - a)
BuyerAmounts(list) ==
    LET keys == ReceiverKeys(list, <<>>)
    IN  SortDescending(<<>>, [i \in 1..Len(keys) |-> AmountTo(list, keys[i])])

\* The double loop: sum over i, j of |amounts[i] - amounts[j]|.
RECURSIVE AbsDiffRow(_, _, _)
AbsDiffRow(amounts, i, j) ==
    IF j > Len(amounts) THEN 0
    ELSE Abs(amounts[i] - amounts[j]) + AbsDiffRow(amounts, i, j + 1)

RECURSIVE AbsDiffSum(_, _)
AbsDiffSum(amounts, i) ==
    IF i > Len(amounts) THEN 0
    ELSE AbsDiffRow(amounts, i, 1) + AbsDiffSum(amounts, i + 1)

\* Math.round(gini * 100) with gini = sum / (2 * amounts.length * totalAmount)
GiniScore_halfNorm(diffSum, n, totalAmount) ==
    RoundDiv(100 * diffSum, n * totalAmount)

GiniScore(diffSum, n, totalAmount) ==
    RoundDiv(100 * diffSum, 2 * n * totalAmount)

analyzeDistribution(list) ==
    Only({IF Len(amounts) < 2 \/ totalAmount = 0 THEN 0
          ELSE GiniScore(AbsDiffSum(amounts, 1), Len(amounts), totalAmount) :
             <<amounts, totalAmount>> \in
                 {<<a, SumSeq(a)>> : a \in {BuyerAmounts(list)}}})

(***************************************************************************)
(* countSuspiciousWallets, getPeriodString, generateInsights               *)
(***************************************************************************)
\* walletTimes.get(w): the timestamps of the transfers to w, in list order.
RECURSIVE TimesTo(_, _)
TimesTo(list, w) ==
    IF list = <<>> THEN <<>>
    ELSE IF Head(list).to = w THEN <<Head(list).timestamp>> \o TimesTo(Tail(list), w)
    ELSE TimesTo(Tail(list), w)

\* sort((a, b) => a - b): ascending.
RECURSIVE InsertAscending(_, _)
InsertAscending(array, a) ==
    Only({IF sorted = <<>> THEN <<a>>
          ELSE IF sorted[Len(sorted)] <= a THEN Append(sorted, a)
          ELSE Append(InsertAscending(SubSeq(sorted, 1, Len(sorted) - 1), a),
                      sorted[Len(sorted)]) :
             sorted \in {array}})

\* The array left as it was filled.
SortAscending_unsorted(sorted, rest) == rest

RECURSIVE SortAscending(_, _)
SortAscending(sorted, rest) ==
    IF rest = <<>> THEN sorted
    ELSE SortAscending(InsertAscending(sorted, Head(rest)), Tail(rest))

\* One wallet of walletTimes.forEach: 1 if it is counted.
SuspiciousWallet(times) ==
    LET sorted == SortAscending(<<>>, times)
    IN  IF Len(times) > 1
           /\ \E i \in 2..Len(sorted) : sorted[i] - sorted[i - 1] < 300000
        THEN 1 ELSE 0

\* The counter `suspicious` kept at module scope instead of inside the
\* function: it carries over from the invocations completed before.
countSuspiciousWallets_sharedCounter(list) ==
    LET keys == ReceiverKeys(list, <<>>)
    IN  SumSeq([i \in 1..Len(keys) |-> SuspiciousWallet(TimesTo(list, keys[i]))])
        + SumSeq([c \in 1..Len(history) |->
                     history[c].output.details.suspiciousWallets])

countSuspiciousWallets(list) ==
    LET keys == ReceiverKeys(list, <<>>)
    IN  SumSeq([i \in 1..Len(keys) |-> SuspiciousWallet(TimesTo(list, keys[i]))])

\* Template-literal formatting of a natural number.
Digit == <<"0", "1", "2", "3", "4", "5", "6", "7", "8", "9">>

RECURSIVE NatToString(_)
NatToString(n) ==
    IF n < 10 THEN Digit[n + 1]
    ELSE NatToString(n \div 10) \o Digit[(n % 10) + 1]

getPeriodString(list) ==
    IF Len(list) = 0 THEN "0h"
    ELSE LET times == SortAscending(<<>>, [i \in 1..Len(list) |-> list[i].timestamp])
             duration == times[Len(times)] - times[1]
             hours == RoundDiv(duration, 1000 * 60 * 60)
         IN  IF hours < 24 THEN NatToString(hours) \o "h"
             ELSE NatToString(RoundDiv(hours, 24)) \o "d"

TimingConcern == "High coordination in transaction timing"
TimingAdvice == "Investigate if transactions came from known bundling services"
WalletConcern == "Similar wallet behavior patterns detected"
WalletAdvice == "Check if suspicious wallets share funding sources or creation dates"
SizeConcern == "Automated transaction sizing patterns"
SizeAdvice == "Verify if similar amounts indicate bot activity"
ConcentrationConcern == "High token concentration among few holders"
ConcentrationAdvice == "Monitor large holders for potential coordinated selling"
NoConcern == "No major red flags detected"
NoAdvice == "Continue monitoring for any changes in trading patterns"

\* The labels with strict comparisons.
RiskLevel_strict(overallScore) ==
    IF overallScore > 80 THEN "High Risk"
    ELSE IF overallScore > 60 THEN "Medium Risk"
    ELSE IF overallScore > 40 THEN "Moderate Risk"
    ELSE "Low Risk"

RiskLevel(overallScore) ==
    IF overallScore >= 80 THEN "High Risk"
    ELSE IF overallScore >= 60 THEN "Medium Risk"
    ELSE IF overallScore >= 40 THEN "Moderate Risk"
    ELSE "Low Risk"

Explanation(overallScore) ==
    IF overallScore >= 70
    THEN "Multiple indicators suggest coordinated buying activity. This could indicate bundled transactions, bot activity, or market manipulation."
    ELSE IF overallScore >= 40
    THEN "Some patterns suggest possible coordination, but could also be normal market behavior during high activity periods."
    ELSE "Transaction patterns appear mostly organic with natural distribution and timing."

\* The rule table with inclusive comparisons (>= 70, >= 60, >= 60, >= 70).
generateInsights_inclusive(overallScore, timingScore, walletScore, sizeScore, distributionScore) ==
    LET c1 == IF timingScore >= 70 THEN <<TimingConcern>> ELSE <<>>
        r1 == IF timingScore >= 70 THEN <<TimingAdvice>> ELSE <<>>
        c2 == IF walletScore >= 60 THEN Append(c1, WalletConcern) ELSE c1
        r2 == IF walletScore >= 60 THEN Append(r1, WalletAdvice) ELSE r1
        c3 == IF sizeScore >= 60 THEN Append(c2, SizeConcern) ELSE c2
        r3 == IF sizeScore >= 60 THEN Append(r2, SizeAdvice) ELSE r2
        c4 == IF distributionScore >= 70 THEN Append(c3, ConcentrationConcern) ELSE c3
        r4 == IF distributionScore >= 70 THEN Append(r3, ConcentrationAdvice) ELSE r3
        none == Len(c4) = 0
    IN  [riskLevel |-> RiskLevel(overallScore),
         primaryConcerns |-> IF none THEN <<NoConcern>> ELSE c4,
         recommendations |-> IF none THEN <<NoAdvice>> ELSE r4,
         explanation |-> Explanation(overallScore)]

\* The fallback pair pushed without the test concerns.length === 0.
generateInsights_fallbackAlways(overallScore, timingScore, walletScore, sizeScore, distributionScore) ==
    LET c1 == IF timingScore > 70 THEN <<TimingConcern>> ELSE <<>>
        r1 == IF timingScore > 70 THEN <<TimingAdvice>> ELSE <<>>
        c2 == IF walletScore > 60 THEN Append(c1, WalletConcern) ELSE c1
        r2 == IF walletScore > 60 THEN Append(r1, WalletAdvice) ELSE r1
        c3 == IF sizeScore > 60 THEN Append(c2, SizeConcern) ELSE c2
        r3 == IF sizeScore > 60 THEN Append(r2, SizeAdvice) ELSE r2
        c4 == IF distributionScore > 70 THEN Append(c3, ConcentrationConcern) ELSE c3
        r4 == IF distributionScore > 70 THEN Append(r3, ConcentrationAdvice) ELSE r3
    IN  [riskLevel |-> RiskLevel(overallScore),
         primaryConcerns |-> Append(c4, NoConcern),
         recommendations |-> Append(r4, NoAdvice),
         explanation |-> Explanation(overallScore)]

generateInsights(overallScore, timingScore, walletScore, sizeScore, distributionScore) ==
    LET c1 == IF timingScore > 70 THEN <<TimingConcern>> ELSE <<>>
        r1 == IF timingScore > 70 THEN <<TimingAdvice>> ELSE <<>>
        c2 == IF walletScore > 60 THEN Append(c1, WalletConcern) ELSE c1
        r2 == IF walletScore > 60 THEN Append(r1, WalletAdvice) ELSE r1
        c3 == IF sizeScore > 60 THEN Append(c2, SizeConcern) ELSE c2
        r3 == IF sizeScore > 60 THEN Append(r2, SizeAdvice) ELSE r2
        c4 == IF distributionScore > 70 THEN Append(c3, ConcentrationConcern) ELSE c3
        r4 == IF distributionScore > 70 THEN Append(r3, ConcentrationAdvice) ELSE r3
        none == Len(c4) = 0
    IN  [riskLevel |-> RiskLevel(overallScore),
         primaryConcerns |-> IF none THEN <<NoConcern>> ELSE c4,
         recommendations |-> IF none THEN <<NoAdvice>> ELSE r4,
         explanation |-> Explanation(overallScore)]

(***************************************************************************)
(* analyzeBundlingPatterns                                                 *)
(***************************************************************************)
\* Math.round(timing * 0.4 + wallet * 0.3 + size * 0.2 + distribution * 0.1)
OverallScore_equalWeights(timingScore, walletScore, sizeScore, distributionScore) ==
    RoundDiv(timingScore + walletScore + sizeScore + distributionScore, 4)

OverallScore(timingScore, walletScore, sizeScore, distributionScore) ==
    RoundDiv(4 * timingScore + 3 * walletScore + 2 * sizeScore + distributionScore,
             10)

UniqueWallets(list) ==
    {list[i].from : i \in 1..Len(list)} \cup {list[i].to : i \in 1..Len(list)}

\* The returned object, built from the values computed before it.
AnalysisResult(list, after, timingScore, walletScore, sizeScore, distributionScore, overallScore) ==
    [score |-> overallScore,
     metrics |-> [timingCluster |-> timingScore,
                  walletSimilarity |-> walletScore,
                  sizePatterns |-> sizeScore,
                  distribution |-> distributionScore],
     details |-> [totalTransactions |-> Len(list),
                  uniqueWallets |-> Cardinality(UniqueWallets(list)),
                  analysisPeriod |-> getPeriodString(after),
                  suspiciousWallets |-> countSuspiciousWallets(after)],
     insights |-> generateInsights(overallScore, timingScore, walletScore,
                                   sizeScore, distributionScore)]

\* The AnalysisResult returned for the array `list`.  uniqueWallets and
\* totalTransactions are taken before analyzeTimeClustering sorts the array;
\* everything after it reads the array as the sort left it.  Each const of
\* the code is computed once and bound to its value.
AnalysisOf(list) ==
    Only({Only({Only({AnalysisResult(list, after, timingScore, walletScore,
                                     sizeScore, distributionScore, overallScore) :
                         overallScore \in {OverallScore(timingScore, walletScore,
                                                        sizeScore, distributionScore)}}) :
                    walletScore \in {analyzeWalletPatterns(after)},
                    sizeScore \in {analyzeTransactionSizes(after)},
                    distributionScore \in {analyzeDistribution(after)}}) :
              timingScore \in {analyzeTimeClustering(list)},
              after \in {AfterTimeClustering(list)}})

\* One call analyzeBundlingPatterns(list): the result is returned, the
\* caller's array is left as analyzeTimeClustering sorted it.
analyzeBundlingPatterns(list) ==
    \E analysis \in {AnalysisOf(list)} :
        /\ passed' = list
        /\ transfers' = AfterTimeClustering(list)
        /\ result' = analysis
        /\ history' = Append(history, [input |-> list, output |-> analysis])
        /\ scores' = [overallScore |-> analysis.score,
                      timingScore |-> analysis.metrics.timingCluster,
                      walletScore |-> analysis.metrics.walletSimilarity,
                      sizeScore |-> analysis.metrics.sizePatterns,
                      distributionScore |-> analysis.metrics.distribution]
        /\ insights' = analysis.insights

(***************************************************************************)
(* The scoring engine applied once to each input list.                     *)
(***************************************************************************)
\* Nine transfers of amount 1 to one wallet and one of amount 1000 to another.
ConcentrationExample ==
    [i \in 1..10 |-> IF i <= 9 THEN Transfer(0, "w1", 1)
                     ELSE Transfer(0, "w2", 1000)]

\* Five transfers of which two are within a window: timing (2 / 5) * 200.
SparseClusterExample ==
    [i \in 1..5 |-> Transfer((i \div 3) * 400000 + (i \div 2) * 800000, "w1", 1)]

\* The same ten transfers with the large one first and spread over time.
ConcentrationExampleSpread ==
    [i \in 1..10 |-> IF i = 1 THEN Transfer(400000, "w3", 1000)
                     ELSE Transfer((10 - i) * 400000, "w2", 1)]

\* Two wallets with two transfers each, of different amounts.
PairedBuyersExample ==
    <<Transfer(400000, "w1", 5), Transfer(0, "w2", 1),
      Transfer(0, "w1", 2), Transfer(400000, "w2", 7)>>

ExampleLists ==
    {ConcentrationExample, ConcentrationExampleSpread, SparseClusterExample,
     PairedBuyersExample}

\* A text: its characters are abstracted to their number, whether all of
\* them are base58 digits, and whether white space surrounds them.
Text(name, length, base58, padded) ==
    [name |-> name, length |-> length, base58 |-> base58, padded |-> padded]

\* The empty string, and useState<TokenInfo | null>(null).
NoText == Text("", 0, TRUE, FALSE)
NoTokenInfo == [symbol |-> ""]

\* SmartPasteButton as first rendered, with an empty clipboard.
PasteIdle ==
    /\ paste = [status |-> "hidden", detectedAddress |-> NoText,
                tokenInfo |-> NoTokenInfo, fetchingToken |-> FALSE]
    /\ clipboard = NoText
    /\ fetches = <<>>
    /\ pastedTimers = 0

\* App as first rendered: its useState initial values, with the key the hook
\* read from localStorage.
AppMounted(apiKey) ==
    [contractAddress |-> "", period |-> "launch", loading |-> FALSE,
     result |-> NoResult, error |-> "", settingsOpen |-> FALSE, apiKey |-> apiKey]

\* The page with no key stored and nothing done yet.
\* SettingsModal as first rendered, closed.
SettingsIdle ==
    /\ modal = [apiKey |-> "", savedKey |-> "", testStatus |-> "idle"]
    /\ testsInFlight = 0
    /\ resetTimers = 0

UiIdle ==
    /\ app = AppMounted("")
    /\ analyses = 0
    /\ localStorage = <<>>
    /\ SettingsIdle
    /\ PasteIdle

\* No analyzeToken call is under way.
TokenIdle ==
    /\ pc = "idle"
    /\ period = "launch"
    /\ signatures = <<>>
    /\ batchStart = 0
    /\ error = ""
    /\ requests = <<>>
    /\ retrieved = "no"
    /\ signaturesData = <<>>
    /\ batchResults = <<>>

Init ==
    /\ BoundedList(transfers) \/ transfers \in ExampleLists
    /\ passed = transfers
    /\ result = NoResult
    /\ history = <<>>
    /\ scores = NoScores
    /\ insights = NoInsights
    /\ TokenIdle
    /\ UiIdle

\* The caller passes its array to analyzeBundlingPatterns.
Analyze ==
    /\ result = NoResult
    /\ analyzeBundlingPatterns(transfers)
    /\ UNCHANGED <<tokenVars, uiVars>>

Next == Analyze

Spec == Init /\ [][Next]_vars

(***************************************************************************)
(* Several invocations of the engine, one after the other (the function    *)
(* has no await, so a call runs to completion before the next starts).     *)
(***************************************************************************)
\* Two transfers to one wallet at the same instant.
RepeatedBuyer == <<Transfer(0, "w1", 1), Transfer(0, "w1", 2)>>

OtherLists == {RepeatedBuyer}

InitCalls ==
    /\ Init
    /\ Len(transfers) <= MaxCallLen

\* The caller passes the same array again, as the previous call left it.
AnalyzeSameArray ==
    /\ result # NoResult
    /\ Len(history) < MaxCalls
    /\ analyzeBundlingPatterns(transfers)
    /\ UNCHANGED <<tokenVars, uiVars>>

\* The caller passes a fresh array equal to the argument of an earlier call.
AnalyzeEqualList ==
    /\ result # NoResult
    /\ Len(history) < MaxCalls
    /\ \E c \in 1..Len(history) : analyzeBundlingPatterns(history[c].input)
    /\ UNCHANGED <<tokenVars, uiVars>>

\* The caller passes another list.
AnalyzeOtherList ==
    /\ result # NoResult
    /\ Len(history) < MaxCalls
    /\ \E list \in OtherLists : analyzeBundlingPatterns(list)
    /\ UNCHANGED <<tokenVars, uiVars>>

NextCalls == Analyze \/ AnalyzeSameArray \/ AnalyzeEqualList \/ AnalyzeOtherList

SpecCalls == InitCalls /\ [][NextCalls]_vars

(***************************************************************************)
(* The engine applied once to lists whose timestamps lie on both sides of  *)
(* the 30 s, 60 s and 300 s windows and of the hour and day roundings.     *)
(* Timestamps are milliseconds counted from the earliest one.              *)
(***************************************************************************)
MaxTimedLen == 3
MaxTimingLen == 5

\* Gaps of 30 s, 60 s, 300 s and 300.001 s between neighbours.
WindowStamps == {0, 30000, 90000, 390000, 690001}

\* 0.5 h, 23.5 h and 36 h after 0.
PeriodStamps == {1800000, 84600000, 129600000}

TimedStamps == WindowStamps \cup PeriodStamps

\* Up to MaxTimedLen transfers of amount 1 to any wallets at any of the
\* timestamps.
TimedList(list) ==
    \E n \in 1..MaxTimedLen :
        \E p \in FirstUseOrder(n) :
            \E stamps \in [1..n -> TimedStamps] :
                list = ListOf(p, [i \in 1..n |-> <<stamps[i], 1>>])

\* Up to MaxTimingLen transfers of amount 1 to one wallet around the windows.
TimingList(list) ==
    \E n \in 1..MaxTimingLen :
        \E stamps \in [1..n -> WindowStamps] :
            list = [i \in 1..n |-> Transfer(stamps[i], "w1", 1)]

\* Three transfers of amount 100 to three wallets at 0, 1000 and 2000 ms.
WindowExample ==
    <<Transfer(0, "w1", 100), Transfer(1000, "w2", 100), Transfer(2000, "w3", 100)>>

\* The same three transfers, latest first.
WindowExampleReversed ==
    <<Transfer(2000, "w3", 100), Transfer(1000, "w2", 100), Transfer(0, "w1", 100)>>

TimedExamples == {WindowExample, WindowExampleReversed}

InitTimed ==
    /\ \/ TimedList(transfers)
       \/ TimingList(transfers)
       \/ transfers \in TimedExamples
    /\ passed = transfers
    /\ result = NoResult
    /\ history = <<>>
    /\ scores = NoScores
    /\ insights = NoInsights
    /\ TokenIdle
    /\ UiIdle

NextTimed == Analyze

SpecTimed == InitTimed /\ [][NextTimed]_vars

(***************************************************************************)
(* generateInsights applied to metric scores on a grid that holds the      *)
(* values next to each threshold; the composite score is the one           *)
(* analyzeBundlingPatterns computes from them.                             *)
(***************************************************************************)
MetricValues == {m \in 0..100 : m % 20 = 0 \/ m \in {59, 61, 69, 70, 71}}

InitInsights ==
    /\ transfers = <<>>
    /\ passed = <<>>
    /\ result = NoResult
    /\ history = <<>>
    /\ \E t, w, z, d \in MetricValues :
          scores = [overallScore |-> OverallScore(t, w, z, d),
                    timingScore |-> t, walletScore |-> w,
                    sizeScore |-> z, distributionScore |-> d]
    /\ insights = NoInsights
    /\ TokenIdle
    /\ UiIdle

\* const insights = generateInsights(overallScore, {...})
GenerateInsights ==
    /\ insights = NoInsights
    /\ insights' = generateInsights(scores.overallScore, scores.timingScore,
                                    scores.walletScore, scores.sizeScore,
                                    scores.distributionScore)
    /\ UNCHANGED <<transfers, passed, result, history, scores, tokenVars, uiVars>>

NextInsights == GenerateInsights

SpecInsights == InitInsights /\ [][NextInsights]_vars

(***************************************************************************)
(* analyzeToken: retrieval over HTTP, then the engine.  Each action is the *)
(* code that runs between two awaits; what the servers answer is drawn     *)
(* from the sets below.                                                    *)
(***************************************************************************)
MaxTxs == 2

ContractAddress == "mint1"
ApiKeys == {"", "key"}
Periods == {"launch", "recent", "custom"}
SignatureCounts == {0, 3, 7, 12, 25, 50}
Clock == {800000}

StorageMessage == "Failed to query long-term storage; please try again"
RpcErrorMessages == {StorageMessage, "Invalid param: WrongSize"}
FetchMessage == "Failed to fetch"

\* The variant that falls back on every JSON-RPC error.
IncludesLongTermStorage_anyError(message) == TRUE

\* error.message?.includes('long-term storage'), on the messages above.
IncludesLongTermStorage(message) == message = StorageMessage

KeyRequiredMessage == "Helius API key is required. Please configure it in Settings."
NoTransactionsMessage == "No transactions found for this token"
NoSignaturesMessage == "No transactions found for this token address"
NoTransfersMessage == "No token transfers found in the analyzed transactions"
NoRecentMessage == "No recent transactions found for this token"

\* What a signature query can come back with: a result of n signatures, a
\* JSON-RPC error, or a rejected fetch.
SignatureOutcomes(limit) ==
    [kind : {"result"}, count : {n \in SignatureCounts : n <= limit}, message : {""}]
    \cup [kind : {"error"}, count : {0}, message : RpcErrorMessages]
    \cup [kind : {"throws"}, count : {0}, message : {FetchMessage}]

SignatureList(n) == [k \in 1..n |-> [signature |-> k]]

\* One entry of tx.tokenTransfers.
TokenMove(mint, tokenAmount, fromUserAccount, toUserAccount) ==
    [mint |-> mint, tokenAmount |-> tokenAmount,
     fromUserAccount |-> fromUserAccount, toUserAccount |-> toUserAccount]

\* One element of the enhanced response: null, or a transaction (timestamp
\* in seconds, 0 when absent; "" for an absent account).
EnhancedTx(signature, isNull, transactionError, timestamp, tokenTransfers) ==
    [isNull |-> isNull, transactionError |-> transactionError,
     timestamp |-> timestamp, signature |-> signature, slot |-> 0,
     tokenTransfers |-> tokenTransfers]

Txs ==
    {EnhancedTx("", TRUE, FALSE, 0, <<>>),
     EnhancedTx("sigFailed", FALSE, TRUE, 400, <<TokenMove("mint1", 2, "f1", "w1")>>),
     EnhancedTx("sigBuy", FALSE, FALSE, 400, <<TokenMove("mint1", 2, "f1", "w1")>>),
     EnhancedTx("sigSwap", FALSE, FALSE, 0, <<TokenMove("mint2", 5, "f1", "w2"),
                                             TokenMove("mint1", 1, "", "")>>),
     EnhancedTx("sigZero", FALSE, FALSE, 400, <<TokenMove("mint1", 0, "f1", "w2")>>),
     EnhancedTx("sigNone", FALSE, FALSE, 400, <<>>)}

EnhancedData == UNION {[1..n -> Txs] : n \in 0..MaxTxs}

\* What an enhanced-transactions request can come back with: an OK
\* response with data, a non-OK status, or a rejected fetch.
EnhancedOutcomes ==
    [kind : {"ok"}, data : EnhancedData, status : {200}, message : {""}]
    \cup [kind : {"notOk"}, data : {<<>>}, status : {429}, message : {""}]
    \cup [kind : {"throws"}, data : {<<>>}, status : {0}, message : {FetchMessage}]

\* The inner loop over tx.tokenTransfers.
RECURSIVE ExtractFromTx(_, _, _)
ExtractFromTx(tx, moves, timestamp) ==
    IF moves = <<>> THEN <<>>
    ELSE LET transfer == Head(moves)
         IN  (IF transfer.mint = ContractAddress /\ transfer.tokenAmount > 0
              THEN <<[signature |-> tx.signature,
                      timestamp |-> timestamp,
                      from |-> IF transfer.fromUserAccount = "" THEN "unknown"
                               ELSE transfer.fromUserAccount,
                      to |-> IF transfer.toUserAccount = "" THEN "unknown"
                             ELSE transfer.toUserAccount,
                      amount |-> transfer.tokenAmount,
                      slot |-> tx.slot]>>
              ELSE <<>>)
             \o ExtractFromTx(tx, Tail(moves), timestamp)

\* The loop over enhancedData without the test of tx.transactionError.
RECURSIVE ExtractTransfers_keepFailed(_, _)
ExtractTransfers_keepFailed(enhancedData, now) ==
    IF enhancedData = <<>> THEN <<>>
    ELSE LET tx == Head(enhancedData)
         IN  (IF tx.isNull THEN <<>>
              ELSE ExtractFromTx(tx, tx.tokenTransfers,
                                 IF tx.timestamp # 0 THEN tx.timestamp * 1000
                                 ELSE now))
             \o ExtractTransfers_keepFailed(Tail(enhancedData), now)

\* The loop over enhancedData: the transfers it pushes, in order.
RECURSIVE ExtractTransfers(_, _)
ExtractTransfers(enhancedData, now) ==
    IF enhancedData = <<>> THEN <<>>
    ELSE LET tx == Head(enhancedData)
         IN  (IF tx.isNull \/ tx.transactionError THEN <<>>
              ELSE ExtractFromTx(tx, tx.tokenTransfers,
                                 IF tx.timestamp # 0 THEN tx.timestamp * 1000
                                 ELSE now))
             \o ExtractTransfers(Tail(enhancedData), now)

batchSize == 10

SignatureRequest(limit) ==
    [api |-> "getSignaturesForAddress", limit |-> limit, transactions |-> <<>>]

EnhancedRequest(batch) ==
    [api |-> "transactions", limit |-> 0, transactions |-> batch]

\* signatures.slice(from, to)
Slice(list, from, to) == SubSeq(list, from + 1, Min(to, Len(list)))

\* analyzeToken's catch: the call rejects with the wrapped message.
Rejects(message) ==
    /\ pc' = "rejected"
    /\ error' = "Analysis failed: " \o message

\* The variant without the length check always goes on to the analysis.
EmptyRetrieval_unchecked(list) == FALSE

\* transfers.length === 0 in analyzeToken
EmptyRetrieval(list) == Len(list) = 0

\* getTokenTransfers returned `list` to analyzeToken.
Returned(list) ==
    IF EmptyRetrieval(list)
    THEN /\ Rejects(NoTransactionsMessage)
         /\ transfers' = list
         /\ UNCHANGED <<passed, result, history, scores, insights>>
    ELSE /\ analyzeBundlingPatterns(list)
         /\ pc' = "resolved"
         /\ error' = ""

\* The batch loop has ended with `list` collected.
LoopExit(list) ==
    /\ retrieved' = "primary"
    /\ IF Len(list) = 0
       THEN /\ Rejects(NoTransfersMessage)
            /\ transfers' = list
            /\ UNCHANGED <<passed, result, history, scores, insights>>
       ELSE Returned(list)

\* The loop test without the cap of 20 signatures.
LoopContinues_uncapped(i, count) == i < count

\* i < Math.min(signatures.length, 20)
LoopContinues(i, count) == i < Min(count, 20)

\* i += batchSize, then the loop test and either the next request or the exit.
NextIteration(list) ==
    LET i == batchStart + batchSize
    IN  /\ batchStart' = i
        /\ IF LoopContinues(i, Len(signatures))
           THEN /\ pc' = "batch"
                /\ requests' = Append(requests,
                       EnhancedRequest(Slice(signatures, i, i + batchSize)))
                /\ transfers' = list
                /\ UNCHANGED <<passed, result, history, scores, insights,
                              error, retrieved>>
           ELSE /\ LoopExit(list)
                /\ UNCHANGED requests

\* The variant in which a failed batch ends the loop.
BatchFailed_aborts(list) ==
    /\ LoopExit(list)
    /\ UNCHANGED <<batchStart, requests>>

\* `continue` after a non-OK response, and in the catch of the batch's try.
BatchFailed(list) == NextIteration(list)

InitToken ==
    /\ transfers = <<>>
    /\ passed = <<>>
    /\ result = NoResult
    /\ history = <<>>
    /\ scores = NoScores
    /\ insights = NoInsights
    /\ TokenIdle
    /\ UiIdle

\* analyzeToken(contractAddress, period, apiKey) up to the first fetch.
analyzeToken(apiKey, p) ==
    /\ IF apiKey = ""
       THEN /\ pc' = "rejected"
            /\ error' = KeyRequiredMessage
            /\ UNCHANGED <<period, requests>>
       ELSE /\ pc' = "signatures"
            /\ period' = p
            /\ requests' = Append(requests,
                   SignatureRequest(IF p = "recent" THEN 50 ELSE 25))
            /\ UNCHANGED error
    /\ UNCHANGED <<engineVars, signatures, batchStart, retrieved, signaturesData,
                   batchResults>>

\* A caller invokes analyzeToken.
Start ==
    /\ pc = "idle"
    /\ \E apiKey \in ApiKeys, p \in Periods : analyzeToken(apiKey, p)
    /\ UNCHANGED uiVars

\* The first signature query completes.
SignaturesResponse ==
    /\ UNCHANGED uiVars
    /\ pc = "signatures"
    /\ \E o \in SignatureOutcomes(requests[Len(requests)].limit) :
          /\ signaturesData' = IF o.kind = "throws" THEN signaturesData
                                ELSE Append(signaturesData, o)
          /\ IF o.kind = "throws"
             THEN /\ Rejects(o.message)
                  /\ UNCHANGED <<signatures, requests>>
             ELSE IF o.kind = "error"
             THEN IF IncludesLongTermStorage(o.message)
                  THEN /\ pc' = "reducedSignatures"
                       /\ requests' = Append(requests, SignatureRequest(10))
                       /\ UNCHANGED <<signatures, error>>
                  ELSE /\ Rejects("Helius RPC error: " \o o.message)
                       /\ UNCHANGED <<signatures, requests>>
             ELSE IF o.count = 0
             THEN /\ Rejects(NoSignaturesMessage)
                  /\ UNCHANGED <<signatures, requests>>
             ELSE /\ signatures' = SignatureList(o.count)
                  /\ pc' = "batch"
                  /\ requests' = Append(requests,
                         EnhancedRequest(Slice(SignatureList(o.count), 0, batchSize)))
                  /\ UNCHANGED error
    /\ UNCHANGED <<engineVars, period, batchStart, retrieved, batchResults>>

\* The enhanced request of the current batch completes.
BatchResponse ==
    /\ UNCHANGED uiVars
    /\ pc = "batch"
    /\ \E o \in EnhancedOutcomes, now \in Clock :
          IF o.kind = "ok"
          THEN \E pushed \in {ExtractTransfers(o.data, now)} :
               /\ transfers' = transfers \o pushed
               /\ batchResults' = Append(batchResults, [ok |-> TRUE, pushed |-> pushed])
               /\ pc' = "delay"
               /\ UNCHANGED <<passed, result, history, scores, insights,
                              batchStart, error,
                              requests, retrieved>>
          ELSE /\ BatchFailed(transfers)
               /\ batchResults' = Append(batchResults, [ok |-> FALSE, pushed |-> <<>>])
    /\ UNCHANGED <<period, signatures, signaturesData>>

\* The 100 ms pause after a processed batch is over.
DelayElapsed ==
    /\ UNCHANGED uiVars
    /\ pc = "delay"
    /\ NextIteration(transfers)
    /\ UNCHANGED <<period, signatures, signaturesData, batchResults>>

\* getTokenTransfersWithReducedLimit: its signature query completes.
ReducedSignaturesResponse ==
    /\ UNCHANGED uiVars
    /\ pc = "reducedSignatures"
    /\ \E o \in SignatureOutcomes(requests[Len(requests)].limit) :
          /\ signaturesData' = IF o.kind = "throws" THEN signaturesData
                                ELSE Append(signaturesData, o)
          /\ IF o.kind = "throws"
             THEN /\ Rejects(o.message)
                  /\ UNCHANGED <<signatures, requests>>
             ELSE IF o.kind = "error"
             THEN /\ Rejects("Reduced query also failed: " \o o.message)
                  /\ UNCHANGED <<signatures, requests>>
             ELSE IF o.count = 0
             THEN /\ Rejects(NoRecentMessage)
                  /\ UNCHANGED <<signatures, requests>>
             ELSE /\ signatures' = SignatureList(o.count)
                  /\ pc' = "reducedEnhanced"
                  /\ requests' = Append(requests,
                         EnhancedRequest(Slice(SignatureList(o.count), 0, 5)))
                  /\ UNCHANGED error
    /\ UNCHANGED <<engineVars, period, batchStart, retrieved, batchResults>>

\* getTokenTransfersWithReducedLimit: its enhanced request completes.
ReducedEnhancedResponse ==
    /\ UNCHANGED uiVars
    /\ pc = "reducedEnhanced"
    /\ \E o \in EnhancedOutcomes, now \in Clock :
          IF o.kind = "throws"
          THEN /\ Rejects(o.message)
               /\ UNCHANGED <<engineVars, retrieved>>
          ELSE IF o.kind = "notOk"
          THEN /\ Rejects("Enhanced API failed even with reduced data: "
                          \o NatToString(o.status))
               /\ UNCHANGED <<engineVars, retrieved>>
          ELSE /\ retrieved' = "reduced"
               /\ Returned(ExtractTransfers(o.data, now))
    /\ UNCHANGED <<period, signatures, batchStart, requests, signaturesData,
                   batchResults>>

NextToken ==
    \/ Start
    \/ SignaturesResponse
    \/ BatchResponse
    \/ DelayElapsed
    \/ ReducedSignaturesResponse
    \/ ReducedEnhancedResponse

SpecToken == InitToken /\ [][NextToken]_vars

\* The steps that follow an await: a request completes or the timer fires.
\* At most one of them is enabled at a time.
Completion ==
    \/ SignaturesResponse
    \/ BatchResponse
    \/ DelayElapsed
    \/ ReducedSignaturesResponse
    \/ ReducedEnhancedResponse

\* Every HTTP request that was issued completes, with a response or a
\* failure, and the 100 ms timer fires.
FairSpecToken == SpecToken /\ WF_vars(Completion)

(***************************************************************************)
(* App: handleAnalyze and the analyzeToken call it awaits.                 *)
(***************************************************************************)
MaxAnalyses == 2

\* What the address input can hold: empty, blank, or the token's address.
Addresses == {"", "  ", ContractAddress}

\* contractAddress.trim(), on the addresses above.
Trim(address) == IF address \in {"", "  "} THEN "" ELSE address

AddressRequiredMessage == "Please enter a contract address"
KeyMissingMessage == "Please configure your Helius API key in Settings"

\* The analyzeToken call has settled and its promise is consumed: the
\* call's locals are gone.
CallReleased ==
    /\ transfers' = <<>>
    /\ passed' = <<>>
    /\ result' = NoResult
    /\ history' = <<>>
    /\ scores' = NoScores
    /\ insights' = NoInsights
    /\ pc' = "idle"
    /\ period' = "launch"
    /\ signatures' = <<>>
    /\ batchStart' = 0
    /\ error' = ""
    /\ requests' = <<>>
    /\ retrieved' = "no"
    /\ signaturesData' = <<>>
    /\ batchResults' = <<>>

InitApp ==
    /\ transfers = <<>>
    /\ passed = <<>>
    /\ result = NoResult
    /\ history = <<>>
    /\ scores = NoScores
    /\ insights = NoInsights
    /\ TokenIdle
    /\ \E apiKey \in ApiKeys :
          /\ app = AppMounted(apiKey)
          /\ localStorage = IF apiKey = "" THEN <<>> ELSE <<apiKey>>
    /\ analyses = 0
    /\ SettingsIdle
    /\ PasteIdle

\* onChange of the address input (and SmartPasteButton's onAddressFound).
SetContractAddress ==
    /\ \E address \in Addresses : app' = [app EXCEPT !.contractAddress = address]
    /\ UNCHANGED <<engineVars, tokenVars, analyses, settingsVars, pasteVars>>

\* onChange of the period select.
SetPeriod ==
    /\ \E p \in {"launch", "recent"} : app' = [app EXCEPT !.period = p]
    /\ UNCHANGED <<engineVars, tokenVars, analyses, settingsVars, pasteVars>>

\* onClose of the settings modal.
CloseSettings ==
    /\ app.settingsOpen
    /\ app' = [app EXCEPT !.settingsOpen = FALSE]
    /\ UNCHANGED <<engineVars, tokenVars, analyses, settingsVars, pasteVars>>

\* An early return of handleAnalyze: setError, and setSettingsOpen(true)
\* when the key is missing.
Refused(message, openSettings) ==
    /\ app' = [app EXCEPT !.error = message,
                          !.settingsOpen = openSettings \/ app.settingsOpen]
    /\ UNCHANGED <<engineVars, tokenVars, analyses, settingsVars, pasteVars>>

\* A click on the Analyze button (disabled while loading): handleAnalyze up
\* to its await.
HandleAnalyze ==
    /\ ~app.loading
    /\ IF Trim(app.contractAddress) = ""
       THEN Refused(AddressRequiredMessage, FALSE)
       ELSE IF app.apiKey = ""
       THEN Refused(KeyMissingMessage, TRUE)
       ELSE /\ analyses < MaxAnalyses
            /\ pc = "idle"
            /\ app' = [app EXCEPT !.loading = TRUE, !.error = "", !.result = NoResult]
            /\ analyses' = analyses + 1
            /\ analyzeToken(app.apiKey, app.period)
            /\ UNCHANGED <<settingsVars, pasteVars>>

\* The variant of the continuation without the finally block.
AwaitSettled_noFinally ==
    IF pc = "resolved"
    THEN [app EXCEPT !.result = result, !.loading = FALSE]
    ELSE [app EXCEPT !.error = error]

\* What the continuation of handleAnalyze leaves: setResult(analysis) or
\* setError(err.message), then setLoading(false).
AwaitSettled ==
    IF pc = "resolved"
    THEN [app EXCEPT !.result = result, !.loading = FALSE]
    ELSE [app EXCEPT !.error = error, !.loading = FALSE]

\* The awaited analyzeToken call has settled: handleAnalyze runs on.
AnalyzeSettled ==
    /\ app.loading
    /\ pc \in {"resolved", "rejected"}
    /\ app' = AwaitSettled
    /\ CallReleased
    /\ UNCHANGED <<analyses, settingsVars, pasteVars>>

\* The steps of the analyzeToken call that App awaits.
TokenStep ==
    /\ app.loading
    /\ Completion

NextApp ==
    \/ SetContractAddress
    \/ SetPeriod
    \/ CloseSettings
    \/ HandleAnalyze
    \/ TokenStep
    \/ AnalyzeSettled

SpecApp == InitApp /\ [][NextApp]_vars

\* Every request completes and every settled promise runs its continuation.
FairSpecApp == SpecApp /\ WF_vars(TokenStep \/ AnalyzeSettled)

(***************************************************************************)
(* SettingsModal and useHeliusApiKey.                                      *)
(***************************************************************************)
MaxPending == 2

\* What the key input can hold.
KeyTexts == {"", "  ", "key", "key2"}

\* localStorage.getItem('helius_api_key') || ''
StoredKey == IF localStorage = <<>> THEN "" ELSE localStorage[1]

InitSettings ==
    /\ transfers = <<>>
    /\ passed = <<>>
    /\ result = NoResult
    /\ history = <<>>
    /\ scores = NoScores
    /\ insights = NoInsights
    /\ TokenIdle
    /\ localStorage \in {<<>>, <<"key">>}
    /\ app = AppMounted(StoredKey)
    /\ analyses = 0
    /\ SettingsIdle
    /\ PasteIdle

\* The Settings button: setSettingsOpen(true), then the modal's effect on
\* isOpen loads the stored key into apiKey and savedKey.
OpenSettings ==
    /\ ~app.settingsOpen
    /\ app' = [app EXCEPT !.settingsOpen = TRUE]
    /\ modal' = [modal EXCEPT !.apiKey = StoredKey, !.savedKey = StoredKey]
    /\ UNCHANGED <<engineVars, tokenVars, analyses, localStorage, testsInFlight,
                   resetTimers, pasteVars>>

\* onChange of the key input.
TypeKey ==
    /\ app.settingsOpen
    /\ \E text \in KeyTexts : modal' = [modal EXCEPT !.apiKey = text]
    /\ UNCHANGED <<engineVars, tokenVars, app, analyses, localStorage, testsInFlight,
                   resetTimers, pasteVars>>

\* The variant of handleSave that dispatches no 'helius-key-updated' event.
HandleSave_noEvent ==
    /\ app.settingsOpen
    /\ Trim(modal.apiKey) # ""
    /\ localStorage' = <<modal.apiKey>>
    /\ modal' = [modal EXCEPT !.savedKey = modal.apiKey]
    /\ UNCHANGED <<engineVars, tokenVars, app, analyses, testsInFlight, resetTimers,
                   pasteVars>>

\* The Save button (disabled for a blank key): handleSave, and the hook's
\* listener, which runs inside dispatchEvent.
HandleSave ==
    /\ app.settingsOpen
    /\ Trim(modal.apiKey) # ""
    /\ localStorage' = <<modal.apiKey>>
    /\ modal' = [modal EXCEPT !.savedKey = modal.apiKey]
    /\ app' = [app EXCEPT !.apiKey = modal.apiKey]
    /\ UNCHANGED <<engineVars, tokenVars, analyses, testsInFlight, resetTimers,
                   pasteVars>>

\* The Clear Key button (rendered when apiKey is not empty): handleClear.
HandleClear ==
    /\ app.settingsOpen
    /\ modal.apiKey # ""
    /\ localStorage' = <<>>
    /\ modal' = [modal EXCEPT !.apiKey = "", !.savedKey = ""]
    /\ app' = [app EXCEPT !.apiKey = ""]
    /\ UNCHANGED <<engineVars, tokenVars, analyses, testsInFlight, resetTimers,
                   pasteVars>>

\* The Test button (disabled for a blank key and while testing): handleTest
\* up to its await.
HandleTest ==
    /\ app.settingsOpen
    /\ Trim(modal.apiKey) # ""
    /\ modal.testStatus # "testing"
    /\ testsInFlight + resetTimers < MaxPending
    /\ modal' = [modal EXCEPT !.testStatus = "testing"]
    /\ testsInFlight' = testsInFlight + 1
    /\ UNCHANGED <<engineVars, tokenVars, app, analyses, localStorage, resetTimers,
                   pasteVars>>

\* A getHealth request settles: 'success' for an OK response, 'error' for
\* any other response or a rejected fetch, and the 3000 ms timer is set.
TestResponse ==
    /\ testsInFlight > 0
    /\ \E status \in {"success", "error"} :
          modal' = [modal EXCEPT !.testStatus = status]
    /\ testsInFlight' = testsInFlight - 1
    /\ resetTimers' = resetTimers + 1
    /\ UNCHANGED <<engineVars, tokenVars, app, analyses, localStorage, pasteVars>>

\* A 3000 ms timer fires: setTestStatus('idle').
ResetTimerFires ==
    /\ resetTimers > 0
    /\ modal' = [modal EXCEPT !.testStatus = "idle"]
    /\ resetTimers' = resetTimers - 1
    /\ UNCHANGED <<engineVars, tokenVars, app, analyses, localStorage,
                   testsInFlight, pasteVars>>

NextSettings ==
    \/ OpenSettings
    \/ CloseSettings
    \/ TypeKey
    \/ HandleSave
    \/ HandleClear
    \/ HandleTest
    \/ TestResponse
    \/ ResetTimerFires

SpecSettings == InitSettings /\ [][NextSettings]_vars

(***************************************************************************)
(* SmartPasteButton.                                                       *)
(***************************************************************************)
\* What the clipboard can hold: nothing, a word, two addresses (one copied
\* with white space around it), and texts just outside the pattern.
Texts ==
    {NoText,
     Text("hello", 5, FALSE, FALSE),
     Text("mintA", 44, TRUE, TRUE),
     Text("mintB", 32, TRUE, FALSE),
     Text("short", 31, TRUE, FALSE),
     Text("long", 45, TRUE, FALSE),
     Text("zero", 32, FALSE, FALSE)}

\* clipboardText.trim()
TrimText(text) == [text EXCEPT !.padded = FALSE]

\* trimmedText && /^[1-9A-HJ-NP-Za-km-z]{32,44}$/.test(trimmedText)
SolanaAddressRegex(text) ==
    /\ text.length > 0
    /\ ~text.padded
    /\ text.base58
    /\ text.length >= 32
    /\ text.length <= 44

InitPaste ==
    /\ transfers = <<>>
    /\ passed = <<>>
    /\ result = NoResult
    /\ history = <<>>
    /\ scores = NoScores
    /\ insights = NoInsights
    /\ TokenIdle
    /\ \E apiKey \in ApiKeys :
          /\ app = AppMounted(apiKey)
          /\ localStorage = IF apiKey = "" THEN <<>> ELSE <<apiKey>>
    /\ analyses = 0
    /\ SettingsIdle
    /\ PasteIdle

\* The user copies something.
ClipboardChanges ==
    /\ \E text \in Texts : clipboard' = text
    /\ UNCHANGED <<engineVars, tokenVars, app, analyses, settingsVars, paste,
                   fetches, pastedTimers>>

\* One run of checkClipboard (at mount, after each change of the effect's
\* dependencies, and every 2000 ms), with fetchTokenInfo up to its await.
CheckClipboard ==
    /\ Len(fetches) < MaxPending
    /\ \E trimmedText \in {TrimText(clipboard)} :
          IF SolanaAddressRegex(trimmedText)
          THEN IF trimmedText # paste.detectedAddress
               THEN IF app.apiKey # ""
                    THEN /\ paste' = [paste EXCEPT !.detectedAddress = trimmedText,
                                                   !.status = "found",
                                                   !.fetchingToken = TRUE]
                         /\ fetches' = Append(fetches, trimmedText)
                    ELSE /\ paste' = [paste EXCEPT !.detectedAddress = trimmedText,
                                                   !.status = "found"]
                         /\ UNCHANGED fetches
               ELSE UNCHANGED <<paste, fetches>>
          ELSE IF paste.status # "hidden"
               THEN /\ paste' = [paste EXCEPT !.status = "hidden",
                                              !.detectedAddress = NoText,
                                              !.tokenInfo = NoTokenInfo]
                    /\ UNCHANGED fetches
               ELSE UNCHANGED <<paste, fetches>>
    /\ UNCHANGED <<engineVars, tokenVars, app, analyses, settingsVars, clipboard,
                   pastedTimers>>

\* A getAsset request settles, in any order: with a result it sets
\* tokenInfo, otherwise nothing; finally setFetchingToken(false).
FetchSettles ==
    /\ \E k \in 1..Len(fetches), found \in BOOLEAN :
          /\ paste' = [paste EXCEPT
                          !.tokenInfo = IF found THEN [symbol |-> fetches[k].name]
                                        ELSE paste.tokenInfo,
                          !.fetchingToken = FALSE]
          /\ fetches' = [j \in 1..(Len(fetches) - 1) |->
                            IF j < k THEN fetches[j] ELSE fetches[j + 1]]
    /\ UNCHANGED <<engineVars, tokenVars, app, analyses, settingsVars, clipboard,
                   pastedTimers>>

\* A click on the button (rendered unless 'hidden', disabled while
\* 'pasted'): handlePaste.
HandlePaste ==
    /\ paste.status \notin {"hidden", "checking", "pasted"}
    /\ pastedTimers < MaxPending
    /\ IF paste.detectedAddress # NoText
       THEN /\ app' = [app EXCEPT !.contractAddress = paste.detectedAddress.name]
            /\ paste' = [paste EXCEPT !.status = "pasted"]
            /\ pastedTimers' = pastedTimers + 1
       ELSE UNCHANGED <<app, paste, pastedTimers>>
    /\ UNCHANGED <<engineVars, tokenVars, analyses, settingsVars, clipboard, fetches>>

\* A 1500 ms timer fires: setStatus('found').
PastedTimerFires ==
    /\ pastedTimers > 0
    /\ paste' = [paste EXCEPT !.status = "found"]
    /\ pastedTimers' = pastedTimers - 1
    /\ UNCHANGED <<engineVars, tokenVars, app, analyses, settingsVars, clipboard,
                   fetches>>

NextPaste ==
    \/ ClipboardChanges
    \/ CheckClipboard
    \/ FetchSettles
    \/ HandlePaste
    \/ PastedTimerFires

SpecPaste == InitPaste /\ [][NextPaste]_vars

(***************************************************************************)
(* Properties of one call (specification Spec).                            *)
(***************************************************************************)
Analyzed == result # NoResult

Metrics == result.metrics

Receivers(list) == {list[i].to : i \in 1..Len(list)}

\* Total amount received by wallet w, summed over the transfers of the list.
RECURSIVE ReceivedFrom(_, _, _)
ReceivedFrom(list, w, i) ==
    IF i > Len(list) THEN 0
    ELSE (IF list[i].to = w THEN list[i].amount ELSE 0) + ReceivedFrom(list, w, i + 1)

ReceivedBy(list, w) == ReceivedFrom(list, w, 1)

\* C1: after a call on a non-empty list of transfers with non-negative
\* amounts, the score and each of the four metrics lie in 0..100.
C1_ScoresInRange ==
    Analyzed =>
        /\ result.score \in 0..100
        /\ Metrics.timingCluster \in 0..100
        /\ Metrics.walletSimilarity \in 0..100
        /\ Metrics.sizePatterns \in 0..100
        /\ Metrics.distribution \in 0..100

C1_Witness ==
    /\ Analyzed
    /\ Len(passed) >= 2
    /\ Metrics.timingCluster = 100
    /\ Metrics.sizePatterns = 0
    /\ Metrics.distribution > 0
    /\ Metrics.walletSimilarity < 100

C3_InputNotMutated == Analyzed => transfers = passed

\* All orderings of a list up to the bounded length; for a longer list the
\* orderings that exchange two of its records.
PermutationsOf(list) ==
    LET n == Len(list)
    IN  IF n <= MaxLen
        THEN {[i \in 1..n |-> list[p[i]]] :
                 p \in {q \in [1..n -> 1..n] : \A a, b \in 1..n : a # b => q[a] # q[b]}}
        ELSE {[list EXCEPT ![a] = list[b], ![b] = list[a]] : a, b \in 1..n}

\* C5: analyzeTimeClustering returns the same score for every permutation
\* of the list it was called with.
C5_TimingPermutationInvariant ==
    Analyzed =>
        \A p \in PermutationsOf(passed) :
            analyzeTimeClustering(p) = Metrics.timingCluster

C5_Witness ==
    /\ Analyzed
    /\ Len(passed) >= 3
    /\ \E i \in 1..(Len(passed) - 1) : passed[i].timestamp > passed[i + 1].timestamp
    /\ \E i \in 1..(Len(passed) - 1) : passed[i].timestamp < passed[i + 1].timestamp
    /\ Metrics.timingCluster > 0

\* C7 as stated: on a list of exactly one record all four sub-scores are 0.
C7_AllZeroOnSingleton ==
    (Analyzed /\ Len(passed) = 1) =>
        /\ Metrics.timingCluster = 0
        /\ Metrics.walletSimilarity = 0
        /\ Metrics.sizePatterns = 0
        /\ Metrics.distribution = 0

\* C7 amended: on a list of exactly one record timingCluster, sizePatterns
\* and distribution are 0 and walletSimilarity is 100.
C7_SingletonScores ==
    (Analyzed /\ Len(passed) = 1) =>
        /\ Metrics.timingCluster = 0
        /\ Metrics.walletSimilarity = 100
        /\ Metrics.sizePatterns = 0
        /\ Metrics.distribution = 0

C7_Witness == Analyzed /\ Len(passed) = 1 /\ passed[1].amount > 0

\* Ten transfers: nine of amount 1 to one wallet, one of amount 1000 to another.
IsConcentrationInput(list) ==
    /\ Len(list) = 10
    /\ \E a, b \in Receivers(list) :
          /\ a # b
          /\ Cardinality({i \in 1..10 : list[i].to = a /\ list[i].amount = 1}) = 9
          /\ Cardinality({i \in 1..10 : list[i].to = b /\ list[i].amount = 1000}) = 1

HasConcentrationPair ==
    \E i \in 1..Len(result.insights.primaryConcerns) :
        /\ result.insights.primaryConcerns[i] = ConcentrationConcern
        /\ i <= Len(result.insights.recommendations)
        /\ result.insights.recommendations[i] = ConcentrationAdvice

\* C8 as stated: for that input the distribution score is at least 70 and
\* the concentration concern is listed with its recommendation at the same
\* index.
C8_ConcentrationFlagged ==
    (Analyzed /\ IsConcentrationInput(passed)) =>
        /\ Metrics.distribution >= 70
        /\ HasConcentrationPair

\* C8 amended: for that input the distribution score is 49 and neither the
\* concentration concern nor its recommendation is listed.
C8_ConcentrationScore49 ==
    (Analyzed /\ IsConcentrationInput(passed)) =>
        /\ Metrics.distribution = 49
        /\ \A i \in 1..Len(result.insights.primaryConcerns) :
              result.insights.primaryConcerns[i] # ConcentrationConcern
        /\ \A i \in 1..Len(result.insights.recommendations) :
              result.insights.recommendations[i] # ConcentrationAdvice

C8_Witness ==
    /\ Analyzed
    /\ IsConcentrationInput(passed)
    /\ passed[1].amount = 1000

\* Some receiving wallet holds the whole (positive) received amount.
SingleHolder(list) ==
    \E w \in Receivers(list) :
        /\ ReceivedBy(list, w) > 0
        /\ \A v \in Receivers(list) \ {w} : ReceivedBy(list, v) = 0

\* The list with one unit of amount moved from transfer i to transfer j.
MoveUnit(list, i, j) ==
    [list EXCEPT ![i].amount = @ - 1, ![j].amount = @ + 1]

\* C9 as stated: with n >= 2 receiving wallets the score reaches 100 in the
\* limit where one wallet holds the whole received amount.
C9_FullConcentrationIs100 ==
    (Analyzed /\ Cardinality(Receivers(passed)) >= 2 /\ SingleHolder(passed)) =>
        Metrics.distribution = 100

\* C9 amended: with n >= 2 receiving wallets the distribution score is at
\* most round(100 * (n - 1) / n), it equals that value when one wallet
\* holds the whole received amount, and it does not decrease when amount is
\* moved from another wallet to a wallet with the largest total.
C9_ConcentrationBound ==
    Analyzed =>
        LET n == Cardinality(Receivers(passed))
            top == {w \in Receivers(passed) :
                       \A v \in Receivers(passed) :
                           ReceivedBy(passed, v) <= ReceivedBy(passed, w)}
        IN  n >= 2 =>
                /\ Metrics.distribution <= RoundDiv(100 * (n - 1), n)
                /\ SingleHolder(passed) =>
                       Metrics.distribution = RoundDiv(100 * (n - 1), n)
                /\ \A i, j \in 1..Len(passed) :
                       (/\ passed[j].to \in top
                        /\ passed[i].to # passed[j].to
                        /\ passed[i].amount > 0)
                       => analyzeDistribution(MoveUnit(passed, i, j))
                              >= Metrics.distribution

C9_Witness ==
    /\ Analyzed
    /\ Cardinality(Receivers(passed)) = 3
    /\ SingleHolder(passed)
    /\ Metrics.distribution = 67

\* C10: the distribution score is 0 when all receiving wallets received
\* the same total, when there are fewer than 2 receiving wallets, and when
\* the total amount is 0.
C10_EqualTotalsScoreZero ==
    Analyzed =>
        ((\/ \A v, w \in Receivers(passed) :
                 ReceivedBy(passed, v) = ReceivedBy(passed, w)
          \/ Cardinality(Receivers(passed)) < 2
          \/ \A i \in 1..Len(passed) : passed[i].amount = 0)
         => Metrics.distribution = 0)

C10_Witness ==
    /\ Analyzed
    /\ Cardinality(Receivers(passed)) >= 2
    /\ \A v, w \in Receivers(passed) : ReceivedBy(passed, v) = ReceivedBy(passed, w)
    /\ \E i \in 1..Len(passed) : passed[i].amount > 0
    /\ \E i, j \in 1..Len(passed) : i # j /\ passed[i].to = passed[j].to

\* The number of transfers of the list that go to wallet w.
TransfersTo(list, w) == Cardinality({i \in 1..Len(list) : list[i].to = w})

\* C11: for every non-empty list in which all receiving wallets have the
\* same number of transfers, the wallet-similarity score is exactly 100.
C11_EqualCountsScore100 ==
    (Analyzed /\ Len(passed) > 0
       /\ \A w, v \in Receivers(passed) :
              TransfersTo(passed, w) = TransfersTo(passed, v)) =>
        Metrics.walletSimilarity = 100

C11_Witness ==
    /\ Analyzed
    /\ Cardinality(Receivers(passed)) = 2
    /\ \A w \in Receivers(passed) : TransfersTo(passed, w) = 2
    /\ \E w, v \in Receivers(passed) : ReceivedBy(passed, w) # ReceivedBy(passed, v)
    /\ Metrics.walletSimilarity = 100

\* C12: for every list of at least two transfers whose amounts are all
\* identical, all 0 included, the size-pattern score is exactly 100.
C12_EqualAmountsScore100 ==
    (Analyzed /\ Len(passed) >= 2
       /\ \A i, j \in 1..Len(passed) : passed[i].amount = passed[j].amount) =>
        Metrics.sizePatterns = 100

C12_Witness ==
    /\ Analyzed
    /\ Len(passed) = 3
    /\ \A i \in 1..Len(passed) : passed[i].amount = 0
    /\ Cardinality(Receivers(passed)) = 2
    /\ Metrics.sizePatterns = 100

C4_EmptyRetrievalRejects ==
    /\ (retrieved # "no" /\ Len(transfers) = 0) =>
           /\ pc = "rejected"
           /\ result = NoResult
           /\ error \in {"Analysis failed: " \o NoTransfersMessage,
                         "Analysis failed: " \o NoTransactionsMessage}
    /\ \A c \in 1..Len(history) : Len(history[c].input) > 0

C4_Witness ==
    /\ retrieved = "reduced"
    /\ Len(transfers) = 0
    /\ pc = "rejected"
    /\ Len(requests) = 3

(***************************************************************************)
(* Properties of generateInsights (specification SpecInsights).            *)
(***************************************************************************)
InsightsGenerated == insights # NoInsights

Listed(concern) ==
    \E i \in 1..Len(insights.primaryConcerns) : insights.primaryConcerns[i] = concern

\* The place of a concern in the rule table; the fallback comes last.
RuleOrder(concern) ==
    CASE concern = TimingConcern -> 1
      [] concern = WalletConcern -> 2
      [] concern = SizeConcern -> 3
      [] concern = ConcentrationConcern -> 4
      [] OTHER -> 5

\* The recommendation the rule table pairs with a concern.
PairedAdvice(concern) ==
    CASE concern = TimingConcern -> TimingAdvice
      [] concern = WalletConcern -> WalletAdvice
      [] concern = SizeConcern -> SizeAdvice
      [] concern = ConcentrationConcern -> ConcentrationAdvice
      [] OTHER -> NoAdvice

InRuleOrder ==
    \A i, j \in 1..Len(insights.primaryConcerns) :
        i < j => RuleOrder(insights.primaryConcerns[i])
                 < RuleOrder(insights.primaryConcerns[j])

\* C13 as stated: the timing concern is emitted exactly when timing >= 70,
\* the wallet concern exactly when wallet >= 60, the sizing concern exactly
\* when size >= 60, the concentration concern exactly when
\* distribution >= 70, and the emitted concerns are in the order timing,
\* wallet, size, distribution.
C13_InclusiveThresholds ==
    InsightsGenerated =>
        /\ Listed(TimingConcern) <=> scores.timingScore >= 70
        /\ Listed(WalletConcern) <=> scores.walletScore >= 60
        /\ Listed(SizeConcern) <=> scores.sizeScore >= 60
        /\ Listed(ConcentrationConcern) <=> scores.distributionScore >= 70
        /\ InRuleOrder

\* C13 amended: the timing concern is emitted exactly when timing > 70, the
\* wallet concern exactly when wallet > 60, the sizing concern exactly when
\* size > 60, the concentration concern exactly when distribution > 70 (the
\* values 70/60/60/70 themselves emit nothing), and the emitted concerns
\* are in the order timing, wallet, size, distribution.
C13_StrictThresholds ==
    InsightsGenerated =>
        /\ Listed(TimingConcern) <=> scores.timingScore > 70
        /\ Listed(WalletConcern) <=> scores.walletScore > 60
        /\ Listed(SizeConcern) <=> scores.sizeScore > 60
        /\ Listed(ConcentrationConcern) <=> scores.distributionScore > 70
        /\ InRuleOrder

C13_Witness ==
    /\ InsightsGenerated
    /\ scores.timingScore = 70
    /\ scores.walletScore = 61
    /\ scores.sizeScore = 60
    /\ scores.distributionScore = 71
    /\ insights.primaryConcerns = <<WalletConcern, ConcentrationConcern>>

\* C14: primaryConcerns and recommendations are non-empty and of the same
\* length, recommendation i is the one paired with concern i, and the
\* fallback pair is present if and only if none of the four metric
\* conditions fired (none of the tests timing > 70, wallet > 60, size > 60,
\* distribution > 70 held, so no metric concern was emitted), in which case
\* it is the only pair.
C14_ConcernsPaired ==
    InsightsGenerated =>
        /\ Len(insights.primaryConcerns) >= 1
        /\ Len(insights.recommendations) = Len(insights.primaryConcerns)
        /\ \A i \in 1..Len(insights.primaryConcerns) :
              /\ insights.primaryConcerns[i] \in
                     {TimingConcern, WalletConcern, SizeConcern,
                      ConcentrationConcern, NoConcern}
              /\ insights.recommendations[i] = PairedAdvice(insights.primaryConcerns[i])
        /\ Listed(NoConcern) <=>
               ~(Listed(TimingConcern) \/ Listed(WalletConcern)
                 \/ Listed(SizeConcern) \/ Listed(ConcentrationConcern))
        /\ Listed(NoConcern) => insights.primaryConcerns = <<NoConcern>>
        /\ Listed(NoConcern) <=>
               ~(scores.timingScore > 70 \/ scores.walletScore > 60
                 \/ scores.sizeScore > 60 \/ scores.distributionScore > 70)

C14_Witness ==
    /\ InsightsGenerated
    /\ scores.timingScore = 100
    /\ scores.sizeScore = 80
    /\ insights.primaryConcerns = <<TimingConcern, SizeConcern>>
    /\ insights.recommendations = <<TimingAdvice, SizeAdvice>>

\* C15: the riskLevel label is determined by the composite score alone:
\* 'High Risk' iff score >= 80, 'Medium Risk' iff 60 <= score < 80,
\* 'Moderate Risk' iff 40 <= score < 60, 'Low Risk' iff score < 40; every
\* score in 0..100 gets exactly one of the four labels.
C15_RiskLevelByScore ==
    InsightsGenerated =>
        /\ scores.overallScore \in 0..100
        /\ insights.riskLevel \in {"High Risk", "Medium Risk", "Moderate Risk", "Low Risk"}
        /\ insights.riskLevel = "High Risk" <=> scores.overallScore >= 80
        /\ insights.riskLevel = "Medium Risk" <=>
               (60 <= scores.overallScore /\ scores.overallScore < 80)
        /\ insights.riskLevel = "Moderate Risk" <=>
               (40 <= scores.overallScore /\ scores.overallScore < 60)
        /\ insights.riskLevel = "Low Risk" <=> scores.overallScore < 40

C15_Witness ==
    /\ InsightsGenerated
    /\ scores.overallScore = 80
    /\ scores.timingScore < 70
    /\ insights.riskLevel = "High Risk"

(***************************************************************************)
(* Properties of one call on timed lists (specification SpecTimed).        *)
(***************************************************************************)
IsWindowExample(list) ==
    /\ Len(list) = 3
    /\ Cardinality(Receivers(list)) = 3
    /\ \A i \in 1..3 : list[i].amount = 100
    /\ {list[i].timestamp : i \in 1..3} = {0, 1000, 2000}

\* C16: for three transfers of amount 100 to three distinct wallets at
\* 0 ms, 1000 ms and 2000 ms the result has timingCluster 100, sizePatterns
\* 100, walletSimilarity 100, distribution 0, score 90 and riskLevel
\* 'High Risk'.
C16_WindowExampleResult ==
    (Analyzed /\ IsWindowExample(passed)) =>
        /\ Metrics.timingCluster = 100
        /\ Metrics.sizePatterns = 100
        /\ Metrics.walletSimilarity = 100
        /\ Metrics.distribution = 0
        /\ result.score = 90
        /\ result.insights.riskLevel = "High Risk"

C16_Witness ==
    /\ Analyzed
    /\ IsWindowExample(passed)
    /\ passed[1].timestamp = 2000
    /\ result.score = 90

\* The k-th smallest timestamp of the list, by counting.
StampAt(list, k) ==
    CHOOSE t \in {list[i].timestamp : i \in 1..Len(list)} :
        /\ Cardinality({i \in 1..Len(list) : list[i].timestamp < t}) < k
        /\ k <= Cardinality({i \in 1..Len(list) : list[i].timestamp <= t})

\* The timestamps of the list in ascending order.
SortedStamps(list) == [k \in 1..Len(list) |-> StampAt(list, k)]

\* Positions i..j of the sorted timestamps form a run for window w (in ms):
\* at least two transfers, each successive gap at most w.
IsRun(stamps, i, j, w) ==
    /\ i < j
    /\ \A k \in (i + 1)..j : stamps[k] - stamps[k - 1] <= w

\* M: the size of the largest run over the three windows, 0 if there is none.
LargestRun(list) ==
    LET stamps == SortedStamps(list)
        sizes == {j - i + 1 : <<i, j>> \in
                     {<<a, b>> \in (1..Len(list)) \X (1..Len(list)) :
                         \E w \in {30000, 60000, 300000} : IsRun(stamps, a, b, w)}}
    IN  IF sizes = {} THEN 0 ELSE CHOOSE m \in sizes : \A o \in sizes : o <= m

\* C17: the timing score is round(min(100, (M / N) * 200)) for N transfers
\* with largest run M; it is 100 whenever a run covers at least half of the
\* transfers, and 0 when no two consecutive sorted transfers are within
\* 300 s of each other.
C17_TimingScoreFormula ==
    (Analyzed /\ Len(passed) >= 1) =>
        LET N == Len(passed)
            M == LargestRun(passed)
            x == IF 200 * M <= 100 * N THEN 200 * M ELSE 100 * N
            score == Metrics.timingCluster
        IN  /\ (2 * score - 1) * N <= 2 * x
            /\ 2 * x < (2 * score + 1) * N
            /\ (M >= 2 /\ 2 * M >= N) => score = 100
            /\ (\A k \in 2..N : SortedStamps(passed)[k] - SortedStamps(passed)[k - 1]
                                      > 300000)
                   => score = 0

C17_Witness ==
    /\ Analyzed
    /\ Len(passed) = 5
    /\ LargestRun(passed) = 2
    /\ Metrics.timingCluster = 80
    /\ passed[1].timestamp > passed[2].timestamp

\* The receiving wallets with two transfers whose timestamps are at most
\* `within` ms apart (then two consecutive ones of the sorted timestamps
\* are, too).
WalletsWithPairWithin(list, within) ==
    {w \in Receivers(list) :
        \E i, j \in 1..Len(list) :
            /\ i # j
            /\ list[i].to = w
            /\ list[j].to = w
            /\ list[i].timestamp - list[j].timestamp \in 0..within}

\* C18: suspiciousWallets is the number of distinct receiving wallets with
\* at least 2 transfers of which two consecutive ones (by timestamp) are
\* within 300000 ms of each other, a gap of exactly 300000 ms included;
\* each such wallet counts once, so the count never exceeds the number of
\* distinct receiving wallets.
C18_SuspiciousWalletCount ==
    Analyzed =>
        /\ result.details.suspiciousWallets
               = Cardinality(WalletsWithPairWithin(passed, 300000))
        /\ result.details.suspiciousWallets <= Cardinality(Receivers(passed))

\* The hours h = round(duration / 3600000) and the string made of them.
PeriodOfDuration(duration) ==
    LET h == CHOOSE k \in 0..100 :
                 /\ (2 * k - 1) * 3600000 <= 2 * duration
                 /\ 2 * duration < (2 * k + 1) * 3600000
        days == CHOOSE k \in 0..10 : (2 * k - 1) * 24 <= 2 * h /\ 2 * h < (2 * k + 1) * 24
    IN  IF h < 24 THEN ToString(h) \o "h" ELSE ToString(days) \o "d"

\* C19: analysisPeriod is made from h = round((max timestamp - min
\* timestamp) / 3600000): h followed by 'h' when h < 24, otherwise
\* round(h / 24) followed by 'd'; getPeriodString gives the same string for
\* every order of the list, and '0h' for the empty list.
C19_PeriodString ==
    /\ getPeriodString(<<>>) = "0h"
    /\ (Analyzed /\ Len(passed) >= 1) =>
           LET stamps == SortedStamps(passed)
           IN  /\ result.details.analysisPeriod
                      = PeriodOfDuration(stamps[Len(passed)] - stamps[1])
               /\ \A p \in PermutationsOf(passed) :
                      getPeriodString(p) = result.details.analysisPeriod

C19_Witness ==
    /\ Analyzed
    /\ Len(passed) = 3
    /\ passed[1].timestamp = 129600000
    /\ passed[2].timestamp = 0
    /\ passed[3].timestamp = 1800000
    /\ result.details.analysisPeriod = "2d"

(***************************************************************************)
(* Properties of analyzeToken when every request completes (specification  *)
(* FairSpecToken).                                                         *)
(***************************************************************************)
SignatureQuery == "getSignaturesForAddress"
BatchQuery == "transactions"

Settled == pc \in {"resolved", "rejected"}

\* At most three requests: a signature query and up to two batches of at
\* most 10, or a signature query, the reduced query and one batch.
RequestsBounded ==
    /\ Len(requests) <= 3
    /\ \E shape \in {<<SignatureQuery, BatchQuery, BatchQuery>>,
                     <<SignatureQuery, SignatureQuery, BatchQuery>>} :
          \A i \in 1..Len(requests) : i <= 3 /\ requests[i].api = shape[i]
    /\ \A i \in 1..Len(requests) : Len(requests[i].transactions) <= 10

\* C20: provided every HTTP request eventually completes, every call of
\* analyzeToken eventually resolves (with a result on a non-empty list of
\* transfers) or rejects (with an error message), and it issues at most 3
\* HTTP requests in all: one signature query and at most two batches of 10,
\* or the failed signature query, the reduced query and one batch.
SettledWithOutcome ==
    /\ pc = "resolved" => (result # NoResult /\ Len(passed) > 0)
    /\ pc = "rejected" => (error # "" /\ result = NoResult)

C20_SettlesWithinThreeRequests ==
    /\ [](RequestsBounded /\ SettledWithOutcome)
    /\ (pc # "idle") ~> Settled

C20_Witness ==
    /\ pc = "resolved"
    /\ Len(signatures) = 50
    /\ Len(requests) = 3
    /\ requests[3].api = BatchQuery
    /\ Len(requests[3].transactions) = 10

(***************************************************************************)
(* Properties of the retrieval (specifications SpecToken, FairSpecToken).  *)
(***************************************************************************)
\* The record is the one pushed for entry `move` of transaction `tx`.
PushedFor(record, tx, move) ==
    /\ record.signature = tx.signature
    /\ record.slot = tx.slot
    /\ record.amount = move.tokenAmount
    /\ record.to \in {move.toUserAccount, "unknown"}
    /\ record.from \in {move.fromUserAccount, "unknown"}
    /\ record.timestamp \in {tx.timestamp * 1000} \cup Clock

\* The lists handed to analyzeBundlingPatterns, one per call.
HandedToEngine == {history[c].input : c \in 1..Len(history)}

\* C21: every record handed to the scoring engine, on the primary and on the
\* reduced path, was pushed for an entry with mint equal to the requested
\* contract address and tokenAmount > 0 of a transaction without
\* transactionError; so its amount is positive and the total amount that
\* analyzeDistribution sums is positive.
C21_HandedTransfersFiltered ==
    \A input \in HandedToEngine :
        /\ retrieved \in {"primary", "reduced"}
        /\ \A i \in 1..Len(input) :
              /\ \E tx \in Txs :
                    /\ ~tx.isNull
                    /\ ~tx.transactionError
                    /\ \E k \in 1..Len(tx.tokenTransfers) :
                          /\ tx.tokenTransfers[k].mint = ContractAddress
                          /\ tx.tokenTransfers[k].tokenAmount > 0
                          /\ PushedFor(input[i], tx, tx.tokenTransfers[k])
              /\ \A tx \in Txs :
                    input[i].signature = tx.signature => ~tx.transactionError
              /\ input[i].amount > 0
        /\ SumSeq(BuyerAmounts(input)) > 0

C21_Witness ==
    /\ pc = "resolved"
    /\ retrieved = "reduced"
    /\ \E input \in HandedToEngine :
          /\ Len(input) = 2
          /\ input[1].signature = "sigSwap"
          /\ input[1].to = "unknown"
          /\ input[2].signature = "sigBuy"

\* The positions in `requests` of the signature queries.
SignatureQueries == {k \in 1..Len(requests) : requests[k].api = "getSignaturesForAddress"}

\* The first signature query was answered with a JSON-RPC error whose
\* message contains 'long-term storage'.
FirstQueryStorageError ==
    /\ Len(signaturesData) >= 1
    /\ signaturesData[1].kind = "error"
    /\ signaturesData[1].message = "Failed to query long-term storage; please try again"

FallbackEntered == Len(requests) >= 2 /\ requests[2].api = "getSignaturesForAddress"

\* C22: the reduced-limit fallback is entered exactly when the first
\* signature query returns an error containing 'long-term storage', at most
\* once per call; it queries again with limit 10 and requests only the first
\* 5 signatures; any other RPC error, and any error of the reduced query,
\* rejects the call with no further request.
C22_FallbackOnStorageErrorOnce ==
    /\ FallbackEntered <=> FirstQueryStorageError
    /\ Cardinality(SignatureQueries) <= 2
    /\ SignatureQueries \subseteq {1, 2}
    /\ FallbackEntered =>
          /\ requests[2].limit = 10
          /\ Len(requests) <= 3
          /\ Len(requests) = 3 =>
                /\ requests[3].api = "transactions"
                /\ requests[3].transactions =
                       [k \in 1..Min(5, Len(signatures)) |-> signatures[k]]
    /\ (Len(signaturesData) >= 1 /\ signaturesData[1].kind = "error"
          /\ ~FirstQueryStorageError) =>
          /\ pc = "rejected"
          /\ Len(requests) = 1
          /\ error = "Analysis failed: Helius RPC error: " \o signaturesData[1].message
    /\ (Len(signaturesData) = 2 /\ signaturesData[2].kind = "error") =>
          /\ pc = "rejected"
          /\ Len(requests) = 2
          /\ error = "Analysis failed: Reduced query also failed: "
                        \o signaturesData[2].message

C22_Witness ==
    /\ FirstQueryStorageError
    /\ Len(signaturesData) = 2
    /\ signaturesData[2].kind = "result"
    /\ Len(signatures) = 7
    /\ Len(requests) = 3
    /\ Len(requests[3].transactions) = 5
    /\ pc = "resolved"

\* The transfers pushed by the batches received so far, in batch order.
RECURSIVE PushedUpTo(_)
PushedUpTo(k) ==
    IF k = 0 THEN <<>>
    ELSE PushedUpTo(k - 1) \o (IF batchResults[k].ok THEN batchResults[k].pushed ELSE <<>>)

\* The number of batches of the loop: 10 signatures each, 20 at most.
BatchesOf(count) == IF count <= 10 THEN 1 ELSE 2

FailedBatches == {k \in 1..Len(batchResults) : ~batchResults[k].ok}

\* C23: on the primary path a failed batch (non-OK response or thrown
\* error) is skipped without aborting: the remaining batch is still
\* requested, the transfers of the successful batches are returned in batch
\* order, and the call rejects with 'No token transfers found' only when no
\* batch contributed a transfer.
C23_FailedBatchSkipped ==
    /\ \A k \in FailedBatches :
          /\ k < BatchesOf(Len(signatures)) =>
                /\ Len(requests) >= k + 2
                /\ requests[k + 2].api = "transactions"
                /\ requests[k + 2].transactions =
                       [j \in 1..(Min(Len(signatures), 10 * (k + 1)) - 10 * k) |->
                           signatures[10 * k + j]]
          /\ error \notin {"Analysis failed: " \o FetchMessage}
    /\ pc \in {"batch", "delay"} => transfers = PushedUpTo(Len(batchResults))
    /\ retrieved = "primary" =>
          /\ Len(batchResults) = BatchesOf(Len(signatures))
          /\ IF PushedUpTo(Len(batchResults)) = <<>>
             THEN /\ pc = "rejected"
                  /\ error = "Analysis failed: No token transfers found in the analyzed transactions"
             ELSE /\ pc = "resolved"
                  /\ Len(history) = 1
                  /\ history[1].input = PushedUpTo(Len(batchResults))
    /\ error = "Analysis failed: No token transfers found in the analyzed transactions" =>
          /\ retrieved = "primary"
          /\ \A k \in 1..Len(batchResults) : batchResults[k].pushed = <<>>

C23_Witness ==
    /\ pc = "resolved"
    /\ retrieved = "primary"
    /\ Len(signatures) = 12
    /\ FailedBatches = {1}
    /\ Len(requests) = 3
    /\ Len(requests[3].transactions) = 2
    /\ Len(batchResults[2].pushed) = 2
    /\ history[1].input = batchResults[2].pushed

(***************************************************************************)
(* Properties of App (specifications SpecApp, FairSpecApp).                *)
(***************************************************************************)
\* handleAnalyze's continuation has just run: loading went from true to false.
AnalysisEnds == app.loading /\ ~app'.loading

\* C26: every analysis started by handleAnalyze eventually ends with
\* loading = false, whether analyzeToken resolves or rejects, and at its end
\* exactly one outcome is recorded: the result on success, or the failure
\* message as error on failure.
C26_AnalysisEndsWithOneOutcome ==
    /\ [][AnalysisEnds =>
            /\ (app'.result # NoResult) # (app'.error # "")
            /\ pc = "resolved" => app'.result = result /\ app'.error = ""
            /\ pc = "rejected" => app'.error = error /\ app'.result = NoResult
            /\ pc \in {"resolved", "rejected"}]_vars
    /\ (app.loading ~> ~app.loading)

C26_Witness ==
    /\ analyses = 2
    /\ ~app.loading
    /\ app.result = NoResult
    /\ app.error = "Analysis failed: Reduced query also failed: Invalid param: WrongSize"

\* C27: a displayed result and a displayed error message are never present
\* together.
C27_ResultExcludesError == app.result # NoResult => app.error = ""

(***************************************************************************)
(* Properties of the settings modal (specification SpecSettings).          *)
(***************************************************************************)
\* The value stored under 'helius_api_key', the empty string when none is.
StoredValue == IF Len(localStorage) = 0 THEN "" ELSE Head(localStorage)

\* C24: after any sequence of Save and Clear actions the key held by the
\* mounted useHeliusApiKey hook equals the value stored under
\* 'helius_api_key' (the empty string when nothing is stored), and a change
\* of the text in the modal's input alone changes neither.
C24_HookKeyEqualsStoredKey ==
    /\ [](app.apiKey = StoredValue)
    /\ [][(localStorage' # localStorage \/ app'.apiKey # app.apiKey) =>
            /\ modal'.savedKey = StoredValue'
            /\ modal'.savedKey # modal.savedKey
            /\ StoredValue' \in {modal.apiKey, ""}]_vars
    /\ [][(modal'.apiKey # modal.apiKey /\ modal'.savedKey = modal.savedKey) =>
            /\ localStorage' = localStorage
            /\ app'.apiKey = app.apiKey]_vars

C24_Witness ==
    /\ app.apiKey = "key2"
    /\ localStorage = <<"key2">>
    /\ modal.apiKey = "key"
    /\ modal.savedKey = "key2"

\* C28: testStatus is 'testing' whenever a key-test request is in flight,
\* so the Test button is disabled and at most one request is in flight.
C28_TestingWhileInFlight ==
    /\ testsInFlight > 0 => modal.testStatus = "testing"
    /\ testsInFlight <= 1

(***************************************************************************)
(* Properties of the smart paste button (specification SpecPaste).         *)
(***************************************************************************)
\* C25: the button is rendered (status not 'hidden') only while a valid
\* address is detected: detectedAddress is then a non-empty string of 32 to
\* 44 base58 characters.
C25_ShownOnlyWithAddress ==
    paste.status # "hidden" =>
        /\ paste.detectedAddress # NoText
        /\ paste.detectedAddress.base58
        /\ ~paste.detectedAddress.padded
        /\ paste.detectedAddress.length \in 32..44

\* getButtonContent shows the token's symbol.
TokenInfoDisplayed ==
    /\ paste.status = "found"
    /\ paste.tokenInfo # NoTokenInfo
    /\ ~paste.fetchingToken

\* C29: the token info shown on the button is the one fetched for the
\* currently detected address.
C29_TokenInfoOfDetectedAddress ==
    TokenInfoDisplayed => paste.tokenInfo.symbol = paste.detectedAddress.name

(***************************************************************************)
(* The time windows compared (specification SpecTimed).                    *)
(***************************************************************************)
\* analyzeTimeClustering with the 300 s window as its only window.
FiveMinuteWindowOnly(list) ==
    IF Len(list) < 2 THEN 0
    ELSE LET sorted == SortByTimestamp(list)
             size == MaxClusterSize(Clusters(sorted, 300))
         IN  RoundDiv(Min(100 * Len(sorted), size * 200), Len(sorted))

\* Cluster c is a run of consecutive elements of cluster d.
ContainedIn(c, d) ==
    \E from \in 1..Len(d) :
        /\ from + Len(c) - 1 <= Len(d)
        /\ \A k \in 1..Len(c) : d[from + k - 1] = c[k]

\* C30: the 30 s and 60 s windows never change the timing score: it equals
\* the score of the variant that evaluates the 300 s window alone, and every
\* cluster of a smaller window is contained in a cluster of the 300 s window.
C30_SmallerWindowsRedundant ==
    Analyzed =>
        /\ Metrics.timingCluster = FiveMinuteWindowOnly(passed)
        /\ analyzeTimeClustering(passed) = FiveMinuteWindowOnly(passed)
        /\ Len(passed) >= 2 =>
              LET sorted == SortByTimestamp(passed)
                  largest == Clusters(sorted, 300)
              IN  \A windowMs \in {30, 60} :
                     \A k \in 1..Len(Clusters(sorted, windowMs)) :
                        \E j \in 1..Len(largest) :
                           ContainedIn(Clusters(sorted, windowMs)[k], largest[j])

C30_Witness ==
    /\ Analyzed
    /\ Len(passed) = 5
    /\ Len(Clusters(SortByTimestamp(passed), 30)) = 1
    /\ MaxClusterSize(Clusters(SortByTimestamp(passed), 30)) = 2
    /\ MaxClusterSize(Clusters(SortByTimestamp(passed), 60)) = 3
    /\ MaxClusterSize(Clusters(SortByTimestamp(passed), 300)) = 4
    /\ Metrics.timingCluster = 100

====
